---- MODULE Spec2Model ----
(***************************************************************************)
(* Model of src/embeddings/utils.py: the download reconciler               *)
(* maybe_download_with_pget, its fan-out download_files_with_pget, the     *)
(* single-file fetch download_file_with_pget and the remote listing        *)
(* list_remote_filenames.                                                  *)
(*                                                                         *)
(* Strings are sequences of one-character strings, so that str.replace,    *)
(* str.split, str.rstrip, str.endswith, slicing and the f-string joins are *)
(* computed character by character, as Python computes them.  The local   *)
(* filesystem is the pair (files, dirs) of path sets, relative to the      *)
(* working directory.  File names of the model have at most one directory  *)
(* segment, so os.makedirs never meets a regular file among the ancestors  *)
(* it has to create.                                                       *)
(***************************************************************************)
EXTENDS Naturals, Sequences, FiniteSets

VARIABLES
    files,          \* paths of the regular files of the local filesystem
    dirs,           \* paths of the directories of the local filesystem
    pc,             \* "idle" | "gather" | "returned" | "raised" | "listed"
    args,           \* arguments of the current maybe_download_with_pget call
    expected,       \* remote_filenames after line 176
    missing_files,  \* missing_files after line 185
    tasks,          \* the fetch tasks asyncio.gather was given
    logged,         \* events the logger received in this call
    listing,        \* what list_remote_filenames was asked and answered
    error,          \* the exception the call raised, "" when none
    result,         \* the value the call returned
    repeat          \* this call repeats the call before it: [same, launched]

vars == <<files, dirs, pc, args, expected, missing_files, tasks, logged,
          listing, error, result, repeat>>

\* Longest expected-file list a caller supplies.
MaxFiles == 2

----------------------------------------------------------------------------
\* Python string operations, on sequences of characters.

SLASH == "/"

HTTPS == <<"h","t","t","p","s",":","/","/","s","t","o","r","a","g","e",".",
           "g","o","o","g","l","e","a","p","i","s",".","c","o","m","/">>

GS == <<"g","s",":","/","/">>

JSON == <<"j","s","o","n">>

\* s[n:]
Drop(s, n) == SubSeq(s, n + 1, Len(s))

StartsWith(s, p) == Len(p) <= Len(s) /\ SubSeq(s, 1, Len(p)) = p

EndsWith(s, p) == Len(p) <= Len(s) /\ SubSeq(s, Len(s) - Len(p) + 1, Len(s)) = p

\* c in s
Contains(s, c) == \E i \in 1..Len(s) : s[i] = c

RECURSIVE Replace(_, _, _)
\* s.replace(old, new), old non-empty: leftmost non-overlapping occurrences
Replace(s, old, new) ==
    IF s = <<>> THEN <<>>
    ELSE IF StartsWith(s, old) THEN new \o Replace(Drop(s, Len(old)), old, new)
    ELSE <<Head(s)>> \o Replace(Tail(s), old, new)

RECURSIVE RStrip(_, _)
\* s.rstrip(c)
RStrip(s, c) ==
    IF s # <<>> /\ s[Len(s)] = c THEN RStrip(SubSeq(s, 1, Len(s) - 1), c) ELSE s

RECURSIVE Split(_, _)
\* s.split(c): the segments between the occurrences of c, empty ones kept
Split(s, c) ==
    IF ~Contains(s, c) THEN <<s>>
    ELSE LET i == CHOOSE k \in 1..Len(s) : s[k] = c /\ \A j \in 1..(k - 1) : s[j] # c
         IN  <<SubSeq(s, 1, i - 1)>> \o Split(Drop(s, i), c)

RECURSIVE Join(_, _)
\* c.join(parts)
Join(c, parts) ==
    IF parts = <<>> THEN <<>>
    ELSE IF Len(parts) = 1 THEN parts[1]
    ELSE parts[1] \o <<c>> \o Join(c, Tail(parts))

\* os.path.dirname(p)
DirName(p) ==
    IF ~Contains(p, SLASH) THEN <<>>
    ELSE LET i == CHOOSE k \in 1..Len(p) : p[k] = SLASH /\ \A j \in (k + 1)..Len(p) : p[j] # SLASH
             head == SubSeq(p, 1, i)
         IN  IF RStrip(head, SLASH) = <<>> THEN head ELSE RStrip(head, SLASH)

\* os.path.join(a, b)
OsPathJoin(a, b) ==
    IF StartsWith(b, <<SLASH>>) THEN b
    ELSE IF a = <<>> \/ EndsWith(a, <<SLASH>>) THEN a \o b
    ELSE a \o <<SLASH>> \o b

----------------------------------------------------------------------------
\* The local filesystem.

\* os.path.exists(p)
Exists(fs, ds, p) == p \in fs \/ p \in ds

\* p and the ancestors of p
Ancestors(p) ==
    {SubSeq(p, 1, i) : i \in {k \in 1..Len(p) : k = Len(p) \/ p[k + 1] = SLASH}}
        \ {<<>>}

\* os.makedirs(p, exist_ok=True)
MakeDirs(ds, p) == ds \cup Ancestors(p)

\* os.listdir(p): the entry names of directory p
ListDir(fs, ds, p) ==
    {Drop(q, Len(p) + 1) :
        q \in {e \in fs \cup ds : /\ StartsWith(e, p \o <<SLASH>>)
                                  /\ Len(e) > Len(p) + 1
                                  /\ ~Contains(Drop(e, Len(p) + 1), SLASH)}}

----------------------------------------------------------------------------
\* The environment: file names, locations, and the objects of the buckets.

A_JSON == <<"a",".","j","s","o","n">>

D == <<"d">>

D_XJSON == <<"d","/","x","j","s","o","n">>

Names == {A_JSON, D, D_XJSON}

None == [some |-> FALSE, val |-> <<>>]

Some(v) == [some |-> TRUE, val |-> v]

\* the local directories a caller names
Paths == {<<"o">>}

\* the remote locations a caller names: gs://b/m, its HTTPS form, gs://b/m/,
\* the bare bucket gs://c, the empty string, and none
Locations ==
    {GS \o <<"b","/","m">>, HTTPS \o <<"b","/","m">>, GS \o <<"b","/","m","/">>,
     GS \o <<"c">>}

RemotePaths == {None, Some(<<>>)} \cup {Some(l) : l \in Locations}

RemoteFilenames ==
    {None} \cup {Some(l) : l \in UNION {[1..k -> Names] : k \in 0..MaxFiles}}

\* the object names of a bucket, in the order the listing API yields them
BucketObjects(bucket_name) ==
    IF bucket_name = <<"b">>
        THEN <<(<<"m","/">> \o A_JSON), (<<"m","/">> \o D_XJSON)>>
    ELSE IF bucket_name = <<"c">>
        THEN <<A_JSON, <<"x","d">>>>
    ELSE <<>>

\* bucket.list_blobs(prefix=prefix): the objects whose name starts with prefix
ListBlobs(bucket_name, prefix) ==
    LET under(n) == StartsWith(n, prefix)
    IN  SelectSeq(BucketObjects(bucket_name), under)

----------------------------------------------------------------------------
\* The program.

\* list_remote_filenames, once the import of the storage client succeeded
list_remote_filenames(remote_path) ==
    LET parts == Split(Replace(Replace(remote_path, HTTPS, <<>>), GS, <<>>), SLASH)
        bucket_name == Head(parts)
        prefix == Join(SLASH, Tail(parts))
        blobs == ListBlobs(bucket_name, prefix)
    IN  [i \in 1..Len(blobs) |-> Drop(blobs[i], Len(prefix) + 1)]

\* faulty variant: the test of remote_path is dropped
Truthy_always(remote_path) == TRUE

\* `if remote_path:`
Truthy(remote_path) == remote_path.some /\ remote_path.val # <<>>

\* remote_path.rstrip("/").replace("gs://", "https://storage.googleapis.com/")
NormalizeRemote(remote_path) == Replace(RStrip(remote_path, SLASH), GS, HTTPS)

\* faulty variant: the listing is asked for even when the caller names the files
InfersFilenames_always(remote_filenames) == TRUE

\* `if remote_filenames is None:`
InfersFilenames(remote_filenames) == ~remote_filenames.some

\* faulty variant: the expected names are not compared with the local entries
MissingFiles_all(remote_filenames, local_files) == remote_filenames

\* [file for file in remote_filenames if file not in local_files]
MissingFiles(remote_filenames, local_files) ==
    LET absent(file) == file \notin local_files
    IN  SelectSeq(remote_filenames, absent)

\* faulty variant: the directory is listed recursively, as relative paths
LocalFiles_recursive(fs, ds, path) ==
    {Drop(q, Len(path) + 1) :
        q \in {e \in fs \cup ds : /\ StartsWith(e, path \o <<SLASH>>)
                                  /\ Len(e) > Len(path) + 1}}

\* local_files = os.listdir(path)
LocalFiles(fs, ds, path) == ListDir(fs, ds, path)

RECURSIVE ParentDirs(_, _, _, _)
\* the loop that makes the parent directory of every missing file
ParentDirs(fs, ds, path, missing) ==
    IF missing = <<>> THEN ds
    ELSE LET file == Head(missing)
             parent == DirName(OsPathJoin(path, file))
             made == IF Contains(file, SLASH) /\ ~Exists(fs, ds, parent)
                         THEN MakeDirs(ds, parent) ELSE ds
         IN  ParentDirs(fs, made, path, Tail(missing))

\* faulty variant: the separator is left out of the destination
DestPath_unjoined(path, file) == path \o file

\* f"{path}/{file}"
DestPath(path, file) == path \o <<SLASH>> \o file

\* download_files_with_pget: the coroutines handed to asyncio.gather
download_files_with_pget(remote_path, path, missing) ==
    [i \in 1..Len(missing) |->
        [remote_path |-> remote_path \o <<SLASH>> \o missing[i],
         dest_path   |-> DestPath(path, missing[i]),
         st |-> "pending", tool |-> "", exit |-> "none"]]

\* faulty variant: the suffix tested is ".json"
UsesCurl_dotjson(remote_path) == EndsWith(remote_path, <<".">> \o JSON)

\* `if remote_path.endswith("json"):`
UsesCurl(remote_path) == EndsWith(remote_path, JSON)

\* an external tool can put a file at dest_path
CanWrite(ds, dest_path) ==
    /\ dest_path \notin ds
    /\ DirName(dest_path) = <<>> \/ DirName(dest_path) \in ds

NoListing == [invoked |-> FALSE, remote_path |-> <<>>, raised |-> FALSE, names |-> <<>>]

NoArgs == [path |-> <<>>, remote_path |-> None, remote_filenames |-> None,
           logger |-> FALSE, storage |-> FALSE]

Init ==
    /\ files = {}
    /\ dirs = {}
    /\ pc = "idle"
    /\ args = NoArgs
    /\ expected = <<>>
    /\ missing_files = <<>>
    /\ tasks = <<>>
    /\ logged = <<>>
    /\ listing = NoListing
    /\ error = ""
    /\ result = <<>>
    /\ repeat = [same |-> FALSE, launched |-> 0]

\* maybe_download_with_pget, up to the point where asyncio.run suspends it;
\* storage: whether google.cloud.storage can be imported
maybe_download_with_pget(path, remote_path, remote_filenames, logger, storage) ==
    LET new == [path |-> path, remote_path |-> remote_path,
                remote_filenames |-> remote_filenames, logger |-> logger,
                storage |-> storage]
        given == Truthy(remote_path)
        remote == NormalizeRemote(remote_path.val)
        infers == given /\ InfersFilenames(remote_filenames)
        names == IF infers THEN list_remote_filenames(remote)
                 ELSE remote_filenames.val
        existed == Exists(files, dirs, path)
        dirs1 == IF existed THEN dirs ELSE MakeDirs(dirs, path)
        missing == IF existed
                       THEN MissingFiles(names, LocalFiles(files, dirs, path))
                       ELSE names
        dirs2 == ParentDirs(files, dirs1, path, missing)
    IN  /\ pc = "idle" \/ (pc = "returned" /\ args = new)
        /\ args' = new
        /\ repeat' = IF pc = "returned"
                         THEN [same |-> TRUE, launched |-> Len(tasks)]
                         ELSE [same |-> FALSE, launched |-> 0]
        /\ files' = files
        /\ listing' = IF infers
                          THEN [invoked |-> TRUE, remote_path |-> remote,
                                raised |-> ~storage,
                                names |-> IF storage THEN names ELSE <<>>]
                          ELSE NoListing
        /\ IF ~given
               THEN /\ pc' = "returned"
                    /\ result' = path
                    /\ error' = ""
                    /\ UNCHANGED dirs
                    /\ expected' = <<>> /\ missing_files' = <<>>
                    /\ tasks' = <<>> /\ logged' = <<>>
           ELSE IF infers /\ ~storage
               THEN /\ pc' = "raised"
                    /\ error' = "ImportError"
                    /\ result' = <<>>
                    /\ UNCHANGED dirs
                    /\ expected' = <<>> /\ missing_files' = <<>>
                    /\ tasks' = <<>> /\ logged' = <<>>
           ELSE /\ expected' = names
                /\ missing_files' = missing
                /\ dirs' = dirs2
                /\ error' = ""
                /\ IF Len(missing) > 0
                       THEN /\ pc' = "gather"
                            /\ result' = <<>>
                            /\ logged' = IF logger THEN <<"Downloading">> ELSE <<>>
                            /\ tasks' = download_files_with_pget(remote, path, missing)
                       ELSE /\ pc' = "returned"
                            /\ result' = path
                            /\ logged' = <<>>
                            /\ tasks' = <<>>

\* no task is still waiting for its first step; the event loop runs the first
\* step of every task of the gather, in list order, before it runs anything
\* that a finished step scheduled
AllStarted == \A j \in 1..Len(tasks) : tasks[j].st # "pending"

\* download_file_with_pget up to `await asyncio.create_subprocess_exec`:
\* the tool is chosen and its child process starts, or cannot be started
download_file_with_pget_exec(i, started) ==
    /\ pc = "gather"
    /\ tasks[i].st = "pending"
    /\ \A j \in 1..(i - 1) : tasks[j].st # "pending"
    /\ tasks' = [tasks EXCEPT ![i] =
                    [@ EXCEPT !.tool = IF UsesCurl(tasks[i].remote_path) THEN "curl" ELSE "pget",
                              !.st = IF started THEN "running" ELSE "raised"]]
    /\ UNCHANGED <<files, dirs, pc, args, expected, missing_files, logged,
                   listing, error, result, repeat>>

\* download_file_with_pget from `await process.communicate()` to its end: the
\* child exits, its output is printed, and its exit status is not looked at
download_file_with_pget_communicate(i, ok) ==
    /\ pc = "gather"
    /\ AllStarted
    /\ tasks[i].st = "running"
    /\ ok => CanWrite(dirs, tasks[i].dest_path)
    /\ files' = IF ok THEN files \cup {tasks[i].dest_path} ELSE files
    /\ tasks' = [tasks EXCEPT ![i] =
                    [@ EXCEPT !.st = "done",
                              !.exit = IF ok THEN "zero" ELSE "nonzero"]]
    /\ UNCHANGED <<dirs, pc, args, expected, missing_files, logged,
                   listing, error, result, repeat>>

\* asyncio.gather with every task finished: the driver logs and returns path
gather_returns ==
    /\ pc = "gather"
    /\ \A i \in 1..Len(tasks) : tasks[i].st = "done"
    /\ pc' = "returned"
    /\ result' = args.path
    /\ logged' = IF args.logger THEN Append(logged, "Finished download") ELSE logged
    /\ UNCHANGED <<files, dirs, args, expected, missing_files, tasks,
                   listing, error, repeat>>

\* asyncio.gather with a task that raised: the exception reaches asyncio.run,
\* which cancels the tasks still unfinished and re-raises to the caller
gather_raises ==
    /\ pc = "gather"
    /\ AllStarted
    /\ \E i \in 1..Len(tasks) : tasks[i].st = "raised"
    /\ pc' = "raised"
    /\ error' = "OSError"
    /\ tasks' = [i \in 1..Len(tasks) |->
                    IF tasks[i].st = "running"
                        THEN [tasks[i] EXCEPT !.st = "cancelled"]
                        ELSE tasks[i]]
    /\ UNCHANGED <<files, dirs, args, expected, missing_files, logged,
                   listing, result, repeat>>

\* a direct call of list_remote_filenames
list_remote_filenames_call(remote_path, storage) ==
    /\ pc = "idle"
    /\ listing' = [invoked |-> TRUE, remote_path |-> remote_path,
                   raised |-> ~storage,
                   names |-> IF storage THEN list_remote_filenames(remote_path)
                             ELSE <<>>]
    /\ error' = IF storage THEN "" ELSE "ImportError"
    /\ pc' = "listed"
    /\ UNCHANGED <<files, dirs, args, expected, missing_files, tasks,
                   logged, result, repeat>>

\* the call is over: its caller has the result or the exception, and the next
\* call starts from the filesystem this one left
call_ends ==
    /\ pc \in {"returned", "raised", "listed"}
    /\ pc' = "idle"
    /\ args' = NoArgs
    /\ expected' = <<>> /\ missing_files' = <<>> /\ tasks' = <<>>
    /\ logged' = <<>> /\ listing' = NoListing /\ error' = "" /\ result' = <<>>
    /\ repeat' = [same |-> FALSE, launched |-> 0]
    /\ UNCHANGED <<files, dirs>>

\* a call with any arguments
FirstCall ==
    /\ pc = "idle"
    /\ \E path \in Paths, remote_path \in RemotePaths,
          remote_filenames \in RemoteFilenames, logger \in BOOLEAN,
          storage \in BOOLEAN :
            maybe_download_with_pget(path, remote_path, remote_filenames,
                                     logger, storage)

\* the same call once more, right after it returned
SecondCall ==
    /\ pc = "returned"
    /\ maybe_download_with_pget(args.path, args.remote_path,
                                args.remote_filenames, args.logger, args.storage)

Next ==
    \/ FirstCall
    \/ SecondCall
    \/ pc = "gather" /\ \E i \in 1..Len(tasks), started \in BOOLEAN :
            download_file_with_pget_exec(i, started)
    \/ pc = "gather" /\ \E i \in 1..Len(tasks), ok \in BOOLEAN :
            download_file_with_pget_communicate(i, ok)
    \/ gather_returns
    \/ gather_raises
    \/ pc = "idle" /\ \E remote_path \in Locations, storage \in BOOLEAN :
            list_remote_filenames_call(remote_path, storage)
    \/ call_ends

Spec == Init /\ [][Next]_vars

----------------------------------------------------------------------------
\* Properties.

\* a step that is a call of maybe_download_with_pget, up to its return, its
\* raise, or the start of the fetch tasks
CallStep == pc \in {"idle", "returned"} /\ pc' \in {"gather", "returned", "raised"}

\* <path>/<name>
LocalPathOf(path, name) == path \o <<"/">> \o name

\* C1: when a call with a non-empty missing set returns and every fetch tool
\* exited with status zero, <path>/<name> is a local file for every name of the
\* missing set.
C1_MissingFilesFetched ==
    (/\ pc = "returned"
     /\ Len(missing_files) >= 1
     /\ \A i \in 1..Len(tasks) : tasks[i].exit = "zero")
        => \A i \in 1..Len(missing_files) :
               LocalPathOf(args.path, missing_files[i]) \in files

C1_Witness ==
    /\ pc = "returned"
    /\ Len(missing_files) = 2
    /\ missing_files[1] # missing_files[2]
    /\ \E i \in 1..2 : Contains(missing_files[i], "/")
    /\ \A i \in 1..Len(tasks) : tasks[i].exit = "zero"
    /\ \A i \in 1..2 : LocalPathOf(args.path, missing_files[i]) \in files

\* C2: a call that repeats the call before it, made when every expected name
\* is a top-level name with an entry in the local directory, starts no fetch
\* task and returns path.
C2_SecondCallFetchesNothing ==
    [][(/\ CallStep
        /\ repeat'.same
        /\ \A i \in 1..Len(expected') :
              /\ ~Contains(expected'[i], "/")
              /\ LocalPathOf(args'.path, expected'[i]) \in files \cup dirs)
          => (tasks' = <<>> /\ pc' = "returned" /\ result' = args'.path)]_vars

C2_Witness ==
    /\ pc = "returned"
    /\ repeat.same
    /\ repeat.launched >= 1
    /\ Len(expected) >= 1
    /\ tasks = <<>>
    /\ result = args.path

\* C3: a call without a remote location returns path and does nothing else: no
\* listing, no change of the filesystem, no fetch task, no logger event.
C3_AbsentRemoteIsNoOp ==
    [][(CallStep /\ ~args'.remote_path.some)
          => (/\ pc' = "returned"
              /\ result' = args'.path
              /\ files' = files
              /\ dirs' = dirs
              /\ tasks' = <<>>
              /\ logged' = <<>>
              /\ ~listing'.invoked)]_vars

C3_Witness ==
    /\ pc = "returned"
    /\ args.path # <<>>
    /\ ~args.remote_path.some
    /\ args.remote_filenames.some
    /\ Len(args.remote_filenames.val) >= 1
    /\ args.logger
    /\ result = args.path
    /\ args.path \notin dirs

\* C4 (as claimed): the driver gives control back to its caller only when every
\* fetch task it launched has run to its end, by finishing or by failing.
\* Stated for the calls whose tasks have distinct destinations.
C4_AllTasksRunToCompletion ==
    (/\ pc \in {"returned", "raised"}
     /\ tasks # <<>>
     /\ \A i, j \in 1..Len(tasks) :
            i # j => tasks[i].dest_path # tasks[j].dest_path)
        => \A i \in 1..Len(tasks) : tasks[i].st \in {"done", "raised"}

\* C5 (as claimed): a pget task whose tool exits non-zero makes the call raise,
\* and a curl task whose tool exits non-zero does not.
C5_PgetFailureRaises ==
    (pc \in {"returned", "raised"} /\ tasks # <<>>)
        => /\ (\E i \in 1..Len(tasks) :
                   tasks[i].tool = "pget" /\ tasks[i].exit = "nonzero")
                  => pc = "raised"
           /\ (\A i \in 1..Len(tasks) :
                   /\ tasks[i].st = "done"
                   /\ tasks[i].tool = "pget" => tasks[i].exit = "zero")
                  => pc = "returned"

\* C6 (as claimed): curl is chosen exactly for the locators that end with
\* ".json".
C6_CurlIffDotJson ==
    \A i \in 1..Len(tasks) :
        tasks[i].tool # "" =>
            (tasks[i].tool = "curl" <=>
                EndsWith(tasks[i].remote_path, <<".","j","s","o","n">>))

\* C6 (amended): curl is chosen exactly for the locators whose last four
\* characters are "json", with or without a dot before them; every other
\* locator goes to pget.
C6_CurlIffJson ==
    \A i \in 1..Len(tasks) :
        LET r == tasks[i].remote_path
            n == Len(r)
        IN  tasks[i].tool # "" =>
              /\ tasks[i].tool \in {"curl", "pget"}
              /\ tasks[i].tool = "curl" <=>
                   (n >= 4 /\ r[n-3] = "j" /\ r[n-2] = "s" /\ r[n-1] = "o" /\ r[n] = "n")

C6_Witness ==
    \E i, j \in 1..Len(tasks) :
        /\ tasks[i].tool = "curl"
        /\ ~EndsWith(tasks[i].remote_path, <<".","j","s","o","n">>)
        /\ tasks[j].tool = "pget"

\* the listing the claim describes: the objects under the path prefix of the
\* location, each without the prefix and its separator
ClaimedListing(location) ==
    LET rest == IF StartsWith(location, HTTPS) THEN Drop(location, Len(HTTPS))
                ELSE Drop(location, Len(GS))
        segments == Split(rest, "/")
        objects == BucketObjects(Head(segments))
        prefix == Join("/", Tail(segments))
        under(n) == prefix = <<>> \/ StartsWith(n, prefix \o <<"/">>)
        found == SelectSeq(objects, under)
    IN  [i \in 1..Len(found) |->
            IF prefix = <<>> THEN found[i] ELSE Drop(found[i], Len(prefix) + 1)]

\* C7 (as claimed): list_remote_filenames returns, in listing order, the name
\* of each object under the prefix with the prefix and its separator removed,
\* and the whole name when the prefix is empty.
C7_ListingStripsPrefix ==
    (listing.invoked /\ ~listing.raised)
        => listing.names = ClaimedListing(listing.remote_path)

\* C8: in every call with a remote location, an expected name that contains a
\* path separator is in the missing set and has a fetch task, whatever the local
\* directory holds.
C8_NestedNameAlwaysMissing ==
    (pc \in {"gather", "returned", "raised"} /\ args.remote_path.some
        /\ args.remote_path.val # <<>>)
        => \A i \in 1..Len(expected) :
              Contains(expected[i], "/") =>
                 /\ \E j \in 1..Len(missing_files) : missing_files[j] = expected[i]
                 /\ \E k \in 1..Len(tasks) :
                        tasks[k].dest_path = LocalPathOf(args.path, expected[i])

C8_Witness ==
    /\ pc = "gather"
    /\ \A k \in 1..Len(tasks) : tasks[k].st = "pending"
    /\ \E i \in 1..Len(expected) :
          /\ Contains(expected[i], "/")
          /\ LocalPathOf(args.path, expected[i]) \in files
          /\ \E k \in 1..Len(tasks) :
                 tasks[k].dest_path = LocalPathOf(args.path, expected[i])

\* C9 (as claimed): the fetch tasks of one call have pairwise distinct
\* destination paths.
C9_DistinctDestinations ==
    \A i, j \in 1..Len(tasks) :
        i # j => tasks[i].dest_path # tasks[j].dest_path

\* C10: a call with a remote location and no file list, made when the storage
\* client cannot be imported, raises the import error and changes nothing; a
\* call with a file list never asks for the listing and never raises that error.
C10_MissingDependencyFailsClean ==
    [][CallStep =>
         /\ (/\ args'.remote_path.some
             /\ args'.remote_path.val # <<>>
             /\ ~args'.remote_filenames.some
             /\ ~args'.storage)
                => (/\ pc' = "raised"
                    /\ error' = "ImportError"
                    /\ files' = files
                    /\ dirs' = dirs
                    /\ tasks' = <<>>
                    /\ logged' = <<>>)
         /\ args'.remote_filenames.some
                => (~listing'.invoked /\ error' # "ImportError")]_vars

C10_Witness ==
    /\ pc = "raised"
    /\ error = "ImportError"
    /\ args.logger
    /\ ~args.remote_filenames.some
    /\ args.path \notin dirs
    /\ tasks = <<>>
    /\ logged = <<>>

====
